---- MODULE Spec2Model ----
(***************************************************************************)
(* Cleancart: the cart / price-comparison / order-history state kept by    *)
(* CartProvider (frontend/src/context/CartContext.jsx), the catalog it     *)
(* imports, and the best-store computation of the Products page.           *)
(*                                                                         *)
(* Currency amounts are held in mills (1/1000 of a currency unit), so that *)
(* 3.99 is 3990: this keeps toFixed(2) a real rounding step.  A JavaScript *)
(* value that may be undefined/null is a sequence of length 0 or 1.        *)
(***************************************************************************)
EXTENDS Integers, Sequences, FiniteSets, TLC

VARIABLES
    catalog,    \* the imported catalog module: [stores, products]
    cart,       \* useState cart: sequence of [productId, quantity]
    orders,     \* useState orders: sequence of order records, newest first
    now,        \* the millisecond clock read by Date.now()
    ret,        \* the last call: its name, its arguments, what it returned
    user,       \* useState user of AuthProvider: the signed-in user, if any
    storage,    \* localStorage: the text kept under 'cart' and under 'orders'
    authStorage, \* localStorage: what is kept under 'token' and under 'user'
    users,      \* the rows of the users table
    nextId,     \* the next value of the table's auto-incrementing id
    requests    \* the HTTP requests under way, each where its handler is

vars ==
    <<catalog, cart, orders, now, ret, user, storage, authStorage, users,
      nextId, requests>>

\* the state of the shop, of the session and of the server
shop == <<catalog, cart, orders, now, storage>>
session == <<user, authStorage>>
server == <<users, nextId, requests>>

(***************************************************************************)
(* Bounds of the exploration.                                              *)
(***************************************************************************)
MaxCartLen == 2      \* entries in the cart
MaxQty == 2          \* quantity of one entry, under SpecQuote and SpecOrders
MaxOrders == 1       \* orders in history, under Spec
MaxCheckoutQty == 1  \* quantity of one entry, under Spec
MaxHistory == 3      \* orders in history, under SpecOrders
MaxNow == 1          \* clock ticks
MaxListed == 2       \* orders in history, under SpecDashboard
MaxKept == 2         \* orders in history, under SpecHistory
MaxStored == 1       \* orders in history, under SpecRestart and SpecStorage

Null == <<>>
Some(x) == <<x>>

(***************************************************************************)
(* The catalog.                                                            *)
(***************************************************************************)
stores ==
    << [id |-> "techmart", name |-> "TechMart", deliveryFee |-> 3990],
       [id |-> "gearhub",  name |-> "GearHub",  deliveryFee |-> 2490],
       [id |-> "proshop",  name |-> "ProShop",  deliveryFee |-> 4500] >>

Offer(p, a) == [price |-> p, available |-> a]

products ==
    << [id |-> "mouse-pro", name |-> "Logi Wireless Mouse",
        category |-> "Mice", brand |-> "Logi",
        specs |-> <<"Silent clicks", "Dual Bluetooth/USB", "24-month battery", "Precision sensor">>,
        pricing |-> [techmart |-> Offer(24990, TRUE),
                     gearhub  |-> Offer(22490, TRUE),
                     proshop  |-> Offer(25990, TRUE)]],
       [id |-> "keyboard-low", name |-> "Keylite Low-Profile Keyboard",
        category |-> "Keyboards", brand |-> "Keylite",
        specs |-> <<"Low-profile keys", "White backlight", "Aluminum top", "USB-C detachable">>,
        pricing |-> [techmart |-> Offer(59990, TRUE),
                     gearhub  |-> Offer(62490, TRUE),
                     proshop  |-> Offer(58990, TRUE)]],
       [id |-> "headset-focus", name |-> "Nimbus Focus Headset",
        category |-> "Headsets", brand |-> "Nimbus",
        specs |-> <<"Hybrid ANC", "Dual beam mics", "35h battery", "USB-C fast charge">>,
        pricing |-> [techmart |-> Offer(79990, TRUE),
                     gearhub  |-> Offer(74990, FALSE),
                     proshop  |-> Offer(82490, TRUE)]],
       [id |-> "monitor-27", name |-> "AeroView 27 QHD Monitor",
        category |-> "Monitors", brand |-> "AeroView",
        specs |-> <<"QHD 2560x1440", "USB-C 65W", "Adaptive sync", "Factory calibrated">>,
        pricing |-> [techmart |-> Offer(289990, TRUE),
                     gearhub  |-> Offer(299000, TRUE),
                     proshop  |-> Offer(0, FALSE)]],
       [id |-> "dock-usbc", name |-> "Flex USB-C Dock",
        category |-> "Accessories", brand |-> "Flexio",
        specs |-> <<"HDMI 4K", "100W PD", "Aluminum shell", "Thermal vents">>,
        pricing |-> [techmart |-> Offer(44990, TRUE),
                     gearhub  |-> Offer(0, FALSE),
                     proshop  |-> Offer(41490, TRUE)]],
       [id |-> "chair-ergonomic", name |-> "Axis Ergo Chair",
        category |-> "Chairs", brand |-> "Axis",
        specs |-> <<"Dynamic lumbar", "4D armrests", "Mesh back", "Tilt + height adjust">>,
        pricing |-> [techmart |-> Offer(329000, TRUE),
                     gearhub  |-> Offer(315500, TRUE),
                     proshop  |-> Offer(0, FALSE)]] >>

\* A second catalog of the same shape: equal totals between stores, a
\* missing pricing entry, a free delivery, a free product and carts that no
\* store stocks completely.
altStores ==
    << [id |-> "a", name |-> "A", deliveryFee |-> 0],
       [id |-> "b", name |-> "B", deliveryFee |-> 2000],
       [id |-> "c", name |-> "C", deliveryFee |-> 2000] >>

altProducts ==
    << [id |-> "q", name |-> "Q", category |-> "K", brand |-> "X",
        specs |-> <<"s1">>,
        pricing |-> [a |-> Offer(10000, FALSE),
                     b |-> Offer(10000, TRUE)]],
       [id |-> "p", name |-> "P", category |-> "M", brand |-> "X",
        specs |-> <<>>,
        pricing |-> [a |-> Offer(5000, TRUE),
                     b |-> Offer(3000, TRUE),
                     c |-> Offer(3000, TRUE)]],
       [id |-> "r", name |-> "R", category |-> "K", brand |-> "Y",
        specs |-> <<"s2", "s3">>,
        pricing |-> [a |-> Offer(0, TRUE),
                     b |-> Offer(7000, FALSE),
                     c |-> Offer(7000, TRUE)]] >>

Catalogs ==
    { [stores |-> stores, products |-> products],
      [stores |-> altStores, products |-> altProducts] }

\* A product id that no catalog holds.
GhostId == "ghost"

Range(s) == { s[i] : i \in DOMAIN s }

StoreIds == { s.id : s \in Range(catalog.stores) }
CatalogIds == { p.id : p \in Range(catalog.products) }

(***************************************************************************)
(* Array helpers, as the JavaScript built-ins behave.                      *)
(***************************************************************************)
\* Object spread {...r1, ...r2}: the fields of both, r2 winning
Merge(r1, r2) ==
    [ f \in (DOMAIN r1) \cup (DOMAIN r2) |->
        IF f \in DOMAIN r2 THEN r2[f] ELSE r1[f] ]

\* Array.prototype.filter is SelectSeq and Array.prototype.map is a
\* function over the same positions.
\* Array.prototype.find is the first element filter would keep, or undefined
First(hits) == IF hits = <<>> THEN Null ELSE Some(Head(hits))

\* product lookup of priceMatrix / checkoutCart
FindProduct(productId) ==
    LET Test(p) == p.id = productId
    IN  First(SelectSeq(catalog.products, Test))

\* the offer's available flag not consulted
HasOfferListedOnly(product, storeId) ==
    storeId \in DOMAIN product.pricing

\* offer && offer.available, for product.pricing[storeId]
HasOffer(product, storeId) ==
    /\ storeId \in DOMAIN product.pricing
    /\ product.pricing[storeId].available

\* Number(x.toFixed(1)): rounding to a tenth
ToFixed1(x) == ((x + 50) \div 100) * 100

\* Number(x.toFixed(2)): x rounded to the nearest cent (to 10 mills); the
\* sums met here are whole cents, where the binary rounding of a half plays
\* no part
ToFixed2(x) == ((x + 5) \div 10) * 10

\* stores.map(...) at the head of priceMatrix
InitTotals ==
    LET Start(store) ==
          Merge(store, [total |-> store.deliveryFee,
                        unavailable |-> <<>>,
                        items |-> <<>>])
    IN  [ k \in DOMAIN catalog.stores |-> Start(catalog.stores[k]) ]

\* the same iteration, not recording what a store does not stock
AddEntryDropsUnavailable(totals, entry) ==
    LET found == FindProduct(entry.productId)
    IN  IF found = Null THEN totals
        ELSE LET product == found[1]
                 Price(storeTotal) == product.pricing[storeTotal.id].price
                 Visit(storeTotal) ==
                   IF HasOffer(product, storeTotal.id)
                   THEN [storeTotal EXCEPT
                           !.items = Append(@,
                               Merge(product,
                                     [quantity |-> entry.quantity,
                                      price |-> Price(storeTotal)])),
                           !.total = @ + Price(storeTotal) * entry.quantity]
                   ELSE storeTotal
             IN  [ k \in DOMAIN totals |-> Visit(totals[k]) ]

\* the same iteration, taking a product the catalog does not hold as one
\* that no store stocks
AddEntryUnknownMissing(totals, entry) ==
    LET found == FindProduct(entry.productId)
    IN  IF found = Null
        THEN [ k \in DOMAIN totals |->
                 [totals[k] EXCEPT !.unavailable = Append(@, entry.productId)] ]
        ELSE LET product == found[1]
                 Price(storeTotal) == product.pricing[storeTotal.id].price
                 Visit(storeTotal) ==
                   IF HasOffer(product, storeTotal.id)
                   THEN [storeTotal EXCEPT
                           !.items = Append(@,
                               Merge(product,
                                     [quantity |-> entry.quantity,
                                      price |-> Price(storeTotal)])),
                           !.total = @ + Price(storeTotal) * entry.quantity]
                   ELSE [storeTotal EXCEPT
                           !.unavailable = Append(@, product.name)]
             IN  [ k \in DOMAIN totals |-> Visit(totals[k]) ]

\* one iteration of cart.forEach in priceMatrix
AddEntry(totals, entry) ==
    LET found == FindProduct(entry.productId)
    IN  IF found = Null THEN totals
        ELSE LET product == found[1]
                 Price(storeTotal) == product.pricing[storeTotal.id].price
                 Visit(storeTotal) ==
                   IF HasOffer(product, storeTotal.id)
                   THEN [storeTotal EXCEPT
                           !.items = Append(@,
                               Merge(product,
                                     [quantity |-> entry.quantity,
                                      price |-> Price(storeTotal)])),
                           !.total = @ + Price(storeTotal) * entry.quantity]
                   ELSE [storeTotal EXCEPT
                           !.unavailable = Append(@, product.name)]
             IN  [ k \in DOMAIN totals |-> Visit(totals[k]) ]

RECURSIVE ForEachEntry(_, _)
ForEachEntry(totals, entries) ==
    IF entries = <<>> THEN totals
    ELSE ForEachEntry(AddEntry(totals, Head(entries)), Tail(entries))

\* the priceMatrix memo: one quote per store, in store declaration order
PriceMatrixOf(c) ==
    LET Finish(store) ==
          Merge(store, [total |-> ToFixed2(store.total),
                        availableCount |-> Len(store.items),
                        missingCount |-> Len(store.unavailable)])
        totals == ForEachEntry(InitTotals, c)
    IN  [ k \in DOMAIN totals |-> Finish(totals[k]) ]

priceMatrix == PriceMatrixOf(cart)

\* an insertion that puts q in front of the quotes of equal total
RECURSIVE InsertByTotalUnstable(_, _)
InsertByTotalUnstable(sorted, q) ==
    IF sorted = <<>> THEN <<q>>
    ELSE IF q.total <= Head(sorted).total THEN <<q>> \o sorted
         ELSE <<Head(sorted)>> \o InsertByTotalUnstable(Tail(sorted), q)

\* Array.prototype.sort((a, b) => a.total - b.total): a stable insertion
\* by ascending total
RECURSIVE InsertByTotal(_, _)
InsertByTotal(sorted, q) ==
    IF sorted = <<>> THEN <<q>>
    ELSE IF q.total < Head(sorted).total THEN <<q>> \o sorted
         ELSE <<Head(sorted)>> \o InsertByTotal(Tail(sorted), q)

RECURSIVE SortByTotal(_)
SortByTotal(s) ==
    IF s = <<>> THEN <<>>
    ELSE InsertByTotal(SortByTotal(SubSeq(s, 1, Len(s) - 1)), s[Len(s)])

IsViable(store) == store.missingCount = 0

\* the cheapest quote, whatever it misses
BestStoreUnfiltered(pm) ==
    LET sorted == SortByTotal(pm)
    IN  IF sorted = <<>> THEN Null ELSE Some(sorted[1])

\* bestStore of checkoutCart: filter(...).sort(...)[0], undefined when the
\* filtered array is empty
BestStoreOf(pm) ==
    LET sorted == SortByTotal(SelectSeq(pm, IsViable))
    IN  IF sorted = <<>> THEN Null ELSE Some(sorted[1])

\* bestStore of the Products page
ProductsBestStoreOf(c, pm) ==
    IF Len(c) = 0 THEN Null
    ELSE LET viable == SelectSeq(pm, IsViable)
         IN  IF Len(viable) = 0 THEN Null
             ELSE Some(SortByTotal(viable)[1])

(***************************************************************************)
(* Storage.  The text kept under a key is the JSON of an array: the texts  *)
(* of its elements, and whether the closing bracket is there.  A text cut  *)
(* short by damage has lost the bracket and does not parse.                *)
(***************************************************************************)
\* the properties JSON.stringify writes for an object: a property holding
\* undefined is left out, and address is the one property an order copies
\* from the caller as given; null, strings, finite numbers, booleans,
\* arrays and plain objects are written whole
WrittenFields(object) ==
    { f \in DOMAIN object : ~(f = "address" /\ object[f] = Null) }

StringifyObject(object) == [ f \in WrittenFields(object) |-> object[f] ]

\* JSON.stringify(value), for the array value
Stringify(value) ==
    [elems |-> [ k \in DOMAIN value |-> StringifyObject(value[k]) ],
     closed |-> TRUE]

\* JSON.parse(text) returns the array written; it throws when text is not
\* well-formed
Parses(text) == text.closed

Parse(text) == [ k \in DOMAIN text.elems |-> text.elems[k] ]

\* load that keeps what a damaged text still holds
LoadLenient(store, key, fallback, denied) ==
    IF denied THEN fallback
    ELSE LET raw == store[key]
         IN  IF raw = Null THEN fallback
             ELSE Parse(raw[1])

\* load that never reads the stored text
LoadAlwaysFallback(store, key, fallback, denied) == fallback

\* load(key, fallback) on the storage store; denied: getItem throws.  The
\* fallback is returned when the key is missing (null is falsy) and when
\* the try block throws.
Load(store, key, fallback, denied) ==
    IF denied THEN fallback
    ELSE LET raw == store[key]
         IN  IF raw = Null THEN fallback
             ELSE IF ~Parses(raw[1]) THEN fallback
             ELSE Parse(raw[1])

\* persist(key, value) on the storage store; failed: setItem throws, which
\* is caught and leaves the stored text as it was
Persist(store, key, value, failed) ==
    IF failed THEN store
    ELSE [store EXCEPT ![key] = Some(Stringify(value))]

(***************************************************************************)
(* The state after construction in a browser that has nothing stored:      *)
(* load() falls back to the empty cart and the empty history, the two      *)
(* effects write them out, and nobody is signed in.                        *)
(***************************************************************************)
NothingStored == [cart |-> Null, orders |-> Null]

\* neither 'token' nor 'user' is in localStorage
SignedOut == [token |-> Null, user |-> Null]

Init ==
    /\ catalog \in Catalogs
    /\ cart = Load(NothingStored, "cart", <<>>, FALSE)
    /\ orders = Load(NothingStored, "orders", <<>>, FALSE)
    /\ now = 0
    /\ ret = [op |-> "init", args |-> <<>>, value |-> Null]
    /\ user = Null
    /\ authStorage = SignedOut
    /\ users = {}
    /\ nextId = 1
    /\ requests = {}
    /\ storage = Persist(Persist(NothingStored, "cart", cart, FALSE),
                         "orders", orders, FALSE)

Returns(op, args, value) ==
    ret' = [op |-> op, args |-> args, value |-> value]

(***************************************************************************)
(* Cart operations.                                                        *)
(***************************************************************************)
\* addToCart without the lookup of an existing entry
AddToCartAppends(productId) ==
    /\ cart' = Append(cart, [productId |-> productId, quantity |-> 1])
    /\ Returns("addToCart", <<productId>>, Null)
    /\ UNCHANGED <<catalog, orders, now>>

AddToCart(productId) ==
    LET Same(item) == item.productId = productId
        existing == First(SelectSeq(cart, Same))
        Bump(item) ==
          IF item.productId = productId
          THEN [item EXCEPT !.quantity = @ + 1]
          ELSE item
    IN  /\ cart' = IF existing # Null
                   THEN [ k \in DOMAIN cart |-> Bump(cart[k]) ]
                   ELSE Append(cart, [productId |-> productId, quantity |-> 1])
        /\ Returns("addToCart", <<productId>>, Null)
        /\ UNCHANGED <<catalog, orders, now>>

\* the updater removeFromCart hands to setCart
WithoutProduct(c, productId) ==
    LET Other(item) == item.productId # productId
    IN  SelectSeq(c, Other)

RemoveFromCart(productId) ==
    /\ cart' = WithoutProduct(cart, productId)
    /\ Returns("removeFromCart", <<productId>>, Null)
    /\ UNCHANGED <<catalog, orders, now>>

\* updateQuantity removing only below zero
UpdateQuantityStrict(productId, quantity) ==
    LET Set(item) ==
          IF item.productId = productId
          THEN [item EXCEPT !.quantity = quantity]
          ELSE item
    IN  /\ cart' = IF quantity < 0
                   THEN WithoutProduct(cart, productId)
                   ELSE [ k \in DOMAIN cart |-> Set(cart[k]) ]
        /\ Returns("updateQuantity", <<productId, quantity>>, Null)
        /\ UNCHANGED <<catalog, orders, now>>

\* updateQuantity emptying the cart on a quantity <= 0
UpdateQuantityClears(productId, quantity) ==
    LET Set(item) ==
          IF item.productId = productId
          THEN [item EXCEPT !.quantity = quantity]
          ELSE item
    IN  /\ cart' = IF quantity <= 0
                   THEN <<>>
                   ELSE [ k \in DOMAIN cart |-> Set(cart[k]) ]
        /\ Returns("updateQuantity", <<productId, quantity>>, Null)
        /\ UNCHANGED <<catalog, orders, now>>

UpdateQuantity(productId, quantity) ==
    LET Set(item) ==
          IF item.productId = productId
          THEN [item EXCEPT !.quantity = quantity]
          ELSE item
    IN  /\ cart' = IF quantity <= 0
                   THEN WithoutProduct(cart, productId)
                   ELSE [ k \in DOMAIN cart |-> Set(cart[k]) ]
        /\ Returns("updateQuantity", <<productId, quantity>>, Null)
        /\ UNCHANGED <<catalog, orders, now>>

ClearCart ==
    /\ cart' = <<>>
    /\ Returns("clearCart", <<>>, Null)
    /\ UNCHANGED <<catalog, orders, now>>

(***************************************************************************)
(* Checkout.                                                               *)
(***************************************************************************)
\* x || fallback for a string that may be undefined
OrStr(x, fallback) == IF x = Null \/ x[1] = "" THEN fallback ELSE x[1]

\* x?.field || null for a string field
StrOrNull(x, field) ==
    IF x = Null \/ x[1][field] = "" THEN Null ELSE Some(x[1][field])

\* x?.field || null for a number field
NumOrNull(x, field) ==
    IF x = Null \/ x[1][field] = 0 THEN Null ELSE Some(x[1][field])

\* enrichedItems of checkoutCart
EnrichedItems(c) ==
    LET Enrich(entry) ==
          LET found == FindProduct(entry.productId)
          IN  IF found = Null
              THEN [quantity |-> entry.quantity]
              ELSE Merge(found[1], [quantity |-> entry.quantity])
    IN  [ k \in DOMAIN c |-> Enrich(c[k]) ]

\* the storeId argument taken as given, without looking it up
ChosenStoreUnchecked(pm, storeId, bestStore) ==
    IF storeId # Null
    THEN Some([id |-> storeId[1], name |-> storeId[1],
               total |-> 0, deliveryFee |-> 0])
    ELSE bestStore

\* the best store whatever storeId was given
ChosenStoreBestOnly(pm, storeId, bestStore) == bestStore

\* priceMatrix.find((s) => s.id === storeId) || bestStore
ChosenStoreOf(pm, storeId, bestStore) ==
    LET Match(s) == storeId # Null /\ s.id = storeId[1]
        found == First(SelectSeq(pm, Match))
    IN  IF found # Null THEN found ELSE bestStore

\* `ORD-${Date.now()}`
OrderId(ms) == <<"ORD-", ms>>

\* the order object built by checkoutCart; placedAt is the instant that
\* toISOString() writes out
NewOrder(params) ==
    LET bestStore == BestStoreOf(priceMatrix)
        chosenStore == ChosenStoreOf(priceMatrix, params.storeId, bestStore)
    IN  [id |-> OrderId(now),
         placedAt |-> now,
         customer |-> OrStr(params.user.name, "Guest"),
         customerEmail |-> OrStr(params.user.email, "-"),
         items |-> EnrichedItems(cart),
         storeComparisons |-> priceMatrix,
         bestStoreId |-> StrOrNull(bestStore, "id"),
         bestStoreName |-> StrOrNull(bestStore, "name"),
         selectedStoreId |-> StrOrNull(chosenStore, "id"),
         selectedStoreName |-> StrOrNull(chosenStore, "name"),
         selectedStoreTotal |-> NumOrNull(chosenStore, "total"),
         selectedStoreDelivery |-> NumOrNull(chosenStore, "deliveryFee"),
         paymentMethod |-> OrStr(params.paymentMethod, "cod"),
         paymentNote |-> OrStr(params.paymentNote, ""),
         address |-> params.address,
         status |-> "Pending"]

\* checkoutCart pushing the order behind the history instead of in front
CheckoutCartAppends(params) ==
    IF Len(cart) = 0
    THEN /\ Returns("checkoutCart", <<params>>, Null)
         /\ UNCHANGED <<catalog, cart, orders, now>>
    ELSE /\ orders' = orders \o <<NewOrder(params)>>
         /\ cart' = <<>>
         /\ Returns("checkoutCart", <<params>>, Some(NewOrder(params)))
         /\ UNCHANGED <<catalog, now>>

\* checkoutCart without the empty-cart return
CheckoutCartUnguarded(params) ==
    /\ orders' = <<NewOrder(params)>> \o orders
    /\ cart' = <<>>
    /\ Returns("checkoutCart", <<params>>, Some(NewOrder(params)))
    /\ UNCHANGED <<catalog, now>>

CheckoutCart(params) ==
    IF Len(cart) = 0
    THEN /\ Returns("checkoutCart", <<params>>, Null)
         /\ UNCHANGED <<catalog, cart, orders, now>>
    ELSE /\ orders' = <<NewOrder(params)>> \o orders
         /\ cart' = <<>>
         /\ Returns("checkoutCart", <<params>>, Some(NewOrder(params)))
         /\ UNCHANGED <<catalog, now>>

(***************************************************************************)
(* Order history.                                                          *)
(***************************************************************************)
\* updateOrderStatus quoting the stores again for the order it updates
UpdateOrderStatusRequotes(orderId, nextStatus) ==
    LET Set(order) ==
          IF order.id = orderId
          THEN [order EXCEPT !.status = nextStatus,
                             !.storeComparisons = priceMatrix]
          ELSE order
    IN  /\ orders' = [ k \in DOMAIN orders |-> Set(orders[k]) ]
        /\ Returns("updateOrderStatus", <<orderId, nextStatus>>, Null)
        /\ UNCHANGED <<catalog, cart, now>>

\* updateOrderStatus without the comparison of ids
UpdateOrderStatusAll(orderId, nextStatus) ==
    LET Set(order) == [order EXCEPT !.status = nextStatus]
    IN  /\ orders' = [ k \in DOMAIN orders |-> Set(orders[k]) ]
        /\ Returns("updateOrderStatus", <<orderId, nextStatus>>, Null)
        /\ UNCHANGED <<catalog, cart, now>>

UpdateOrderStatus(orderId, nextStatus) ==
    LET Set(order) ==
          IF order.id = orderId
          THEN [order EXCEPT !.status = nextStatus]
          ELSE order
    IN  /\ orders' = [ k \in DOMAIN orders |-> Set(orders[k]) ]
        /\ Returns("updateOrderStatus", <<orderId, nextStatus>>, Null)
        /\ UNCHANGED <<catalog, cart, now>>

DeleteOrder(orderId) ==
    LET Other(order) == order.id # orderId
    IN  /\ orders' = SelectSeq(orders, Other)
        /\ Returns("deleteOrder", <<orderId>>, Null)
        /\ UNCHANGED <<catalog, cart, now>>

\* time passes between two handler calls
Tick ==
    /\ now' = now + 1
    /\ Returns("tick", <<>>, Null)
    /\ UNCHANGED <<catalog, cart, orders>>

\* CartProvider mounts, at the start of a page load: both states are
\* initialised from storage; denied: localStorage.getItem throws
Mount(denied) ==
    /\ cart' = Load(storage, "cart", <<>>, denied)
    /\ orders' = Load(storage, "orders", <<>>, denied)
    /\ Returns("mount", <<denied>>, Null)
    /\ UNCHANGED <<catalog, now>>

(***************************************************************************)
(* The session and the pages.                                              *)
(***************************************************************************)
\* login(userData, token) of AuthProvider
Login(userData, token) ==
    /\ user' = Some(userData)
    /\ authStorage' = [token |-> Some(token), user |-> Some(userData)]
    /\ Returns("login", <<userData>>, Null)
    /\ UNCHANGED <<catalog, cart, orders, now>>

\* logout() of AuthProvider
Logout ==
    /\ user' = Null
    /\ authStorage' = SignedOut
    /\ Returns("logout", <<>>, Null)
    /\ UNCHANGED <<catalog, cart, orders, now>>

isAuthenticated == user # Null

\* Products page: the checkout dialog opens on a non-empty cart for a
\* signed-in user, and Place order calls checkoutCart once a store is
\* selected among the quotes shown
HandlePlaceOrder(selectedStoreId, shipping, payment) ==
    /\ Len(cart) > 0
    /\ isAuthenticated
    /\ selectedStoreId \in StoreIds
    /\ CheckoutCart([user |-> user[1],
                     storeId |-> Some(selectedStoreId),
                     address |-> Some(shipping),
                     paymentMethod |-> Some(payment.method),
                     paymentNote |-> Some(payment.note)])
    /\ UNCHANGED session

\* Dashboard page
isAdmin == user # Null /\ user[1].role = "admin"

myOrders ==
    LET Mine(order) == user # Null /\ Some(order.customer) = user[1].name
    IN  IF isAdmin THEN orders ELSE SelectSeq(orders, Mine)

IsCompleted(o) == o.status = "Fulfilled"
IsActive(o) == o.status # "Fulfilled"

completedOrders == SelectSeq(myOrders, IsCompleted)
activeOrders == SelectSeq(myOrders, IsActive)

\* the options in the order listed by the doc comment of updateOrderStatus
statusOptionsShipped == <<"Pending", "Shipped", "Delivered">>

statusOptions == <<"Pending", "Scanned", "Fulfilled">>

\* the status select of an active order's row, shown to an administrator;
\* a select reports a change when another option than the current one is
\* picked
StatusSelectChange(order, opt) ==
    /\ isAuthenticated
    /\ isAdmin
    /\ order \in Range(activeOrders)
    /\ opt \in Range(statusOptions)
    /\ opt # order.status
    /\ UpdateOrderStatus(order.id, opt)
    /\ UNCHANGED session

\* the rows that show a Cancel or Delete button: the active orders of a
\* user who is not an administrator, and every completed order listed
DeleteOffered ==
    (IF isAdmin THEN {} ELSE Range(activeOrders)) \cup Range(completedOrders)

\* handleConfirmDelete, reached from the button of the order's row through
\* the confirmation dialog
HandleConfirmDelete(order) ==
    /\ isAuthenticated
    /\ order \in DeleteOffered
    /\ DeleteOrder(order.id)
    /\ UNCHANGED session

(***************************************************************************)
(* The users table and the HTTP service.  A handler runs from one await on *)
(* the database to the next without interruption; between two awaits the   *)
(* handlers of other requests may run.  A request under way is a record    *)
(* that holds what was sent, where its handler stands (pc), the user the   *)
(* middleware attached (reqUser), the model instance the handler works on  *)
(* (instance) and, once answered, the response.                            *)
(***************************************************************************)
AdminEmail == "admin@cleancart.com"
AdminPassword == "admin1234"

\* the string the Login page stores as the administrator's token
AdminToken == <<"admin-token">>

\* password.length of the passwords that are sent
Length(password) ==
    CASE password = "admin1234" -> 9
      [] password = "hunter22" -> 8
      [] password = "abc" -> 3
      [] OTHER -> 7

\* bcrypt.hash(password, 10)
Hash(password) == <<"bcrypt", password>>

\* User.prototype.comparePassword: bcrypt.compare(candidate, this.password)
ComparePassword(row, candidatePassword) ==
    row.password = Hash(candidatePassword)

\* jwt.sign({ userId }, JWT_SECRET)
GenerateToken(userId) == <<"jwt", userId>>

\* jwt.verify(token, JWT_SECRET): the userId of a token this service
\* signed; Null stands for the exception on any other string
Verify(token) ==
    IF Len(token) = 2 /\ token[1] = "jwt" THEN Some(token[2]) ELSE Null

\* the row of least id in a set of rows
Lowest(rows) ==
    IF rows = {} THEN Null
    ELSE Some(CHOOSE u \in rows : \A v \in rows : u.id <= v.id)

\* User.findByPk(id)
FindByPk(table, id) == Lowest({ u \in table : u.id = id })

\* User.findOne({ where: { email } })
FindOne(table, email) == Lowest({ u \in table : u.email = email })

\* the unique index on users.email: another row holds the email
UniqueViolation(table, id, email) ==
    \E u \in table : u.email = email /\ u.id # id

\* the user object of a response; role is absent where the handler leaves
\* it out
View(row, role) ==
    [id |-> row.id, name |-> row.name, email |-> row.email, role |-> role]

RoleOr(row, fallback) ==
    IF row.role = Null THEN Some(fallback) ELSE row.role

NoBody == [error |-> Null, token |-> Null, user |-> Null, users |-> {}]

\* res.status(status).json(body)
Reply(r, status, body) ==
    [r EXCEPT !.pc = "done",
              !.response = Some([status |-> status, body |-> body])]

Error(r, status, message) ==
    Reply(r, status, [NoBody EXCEPT !.error = Some(message)])

\* what a step of a handler leaves behind: the table, the id counter and
\* the request
Out(table, id, r) == [users |-> table, nextId |-> id, request |-> r]

Stay(r) == Out(users, nextId, r)

\* User.create without the unique index on email
CreateNoIndex(r, values, status, conflict, failure) ==
    LET row == [id |-> nextId, name |-> values.name, email |-> values.email,
                role |-> values.role, password |-> Hash(values.password)]
    IN  Out(users \cup {row}, nextId + 1,
            Reply(r, status,
                  [NoBody EXCEPT !.token = Some(GenerateToken(row.id)),
                                 !.user = Some(View(row, row.role))]))

\* await User.create(values) and the response that follows it: the row is
\* inserted with the next id and the hashed password, unless the unique
\* index refuses it and the handler's catch block answers
Create(r, values, status, conflict, failure) ==
    LET row == [id |-> nextId, name |-> values.name, email |-> values.email,
                role |-> values.role, password |-> Hash(values.password)]
    IN  IF UniqueViolation(users, row.id, row.email)
        THEN Stay(Error(r, conflict, failure))
        ELSE Out(users \cup {row}, nextId + 1,
                 Reply(r, status,
                       [NoBody EXCEPT !.token = Some(GenerateToken(row.id)),
                                      !.user = Some(View(row, row.role))]))

\* await user.save() and the response that follows it: the changed fields
\* are written to the row of the instance's id, the password hashed by
\* the beforeUpdate hook; the unique index may refuse the email
Save(r, role) ==
    LET inst == r.instance[1]
        Written(u) ==
          [u EXCEPT
             !.name = IF "name" \in inst.changed THEN inst.row.name ELSE @,
             !.email = IF "email" \in inst.changed THEN inst.row.email ELSE @,
             !.password = IF "password" \in inst.changed
                          THEN Hash(inst.row.password) ELSE @]
        table == { IF u.id = inst.row.id THEN Written(u) ELSE u : u \in users }
    IN  IF "email" \in inst.changed
           /\ UniqueViolation(users, inst.row.id, inst.row.email)
        THEN Stay(Error(r, 500, "Failed to update"))
        ELSE Out(table, nextId,
                 Reply(r, 200,
                       [NoBody EXCEPT
                          !.user = Some(View(inst.row, role))]))

\* register
register(r) ==
    LET body == r.body
    IN  IF r.pc = "register"
        THEN IF body.name = Null \/ body.email = Null \/ body.password = Null
             THEN Stay(Error(r, 400, "Please provide all required fields"))
             ELSE IF body.password # body.confirmPassword
             THEN Stay(Error(r, 400, "Passwords do not match"))
             ELSE IF Length(body.password[1]) < 6
             THEN Stay(Error(r, 400, "Password too short"))
             ELSE IF FindOne(users, body.email[1]) # Null
             THEN Stay(Error(r, 400, "User with this email already exists"))
             ELSE Stay([r EXCEPT !.pc = "register.create"])
        ELSE Create(r, [name |-> body.name[1], email |-> body.email[1],
                        password |-> body.password[1], role |-> Some("user")],
                    201, 400, "User with this email already exists")

\* the token and user object that login answers with
LoggedIn(r, row, fallback) ==
    Reply(r, 200, [NoBody EXCEPT
                     !.token = Some(GenerateToken(row.id)),
                     !.user = Some(View(row, RoleOr(row, fallback)))])

\* login
login(r) ==
    LET body == r.body
    IN  IF r.pc = "login"
        THEN IF body.email = Null \/ body.password = Null
             THEN Stay(Error(r, 400, "Please provide email and password"))
             ELSE IF body.email[1] \in {AdminEmail, "admin"}
                     /\ body.password[1] = AdminPassword
             THEN LET found == FindOne(users, AdminEmail)
                  IN  IF found = Null
                      THEN Stay([r EXCEPT !.pc = "login.create"])
                      ELSE Stay(LoggedIn(r, found[1], "admin"))
             ELSE LET found == FindOne(users, body.email[1])
                  IN  IF found = Null
                      THEN Stay(Error(r, 401, "Invalid email or password"))
                      ELSE IF ~ComparePassword(found[1], body.password[1])
                      THEN Stay(Error(r, 401, "Invalid email or password"))
                      ELSE Stay(LoggedIn(r, found[1], "user"))
        ELSE Create(r, [name |-> "Admin", email |-> AdminEmail,
                        password |-> AdminPassword, role |-> Some("admin")],
                    200, 500, "Login failed. Please try again.")

\* the checks that authenticate and isAdmin share: the header, the token
\* and the row of its userId; Null when all pass
Unauthenticated(r) ==
    IF r.auth = Null THEN Some("Authentication required")
    ELSE IF Verify(r.auth[1]) = Null THEN Some("Invalid or expired token")
    ELSE IF FindByPk(users, Verify(r.auth[1])[1]) = Null
    THEN Some("User not found")
    ELSE Null

Bearer(r) == FindByPk(users, Verify(r.auth[1])[1])

\* authenticate, followed by the handler of the route up to its next await
authenticate(r, next) ==
    IF Unauthenticated(r) # Null THEN Error(r, 401, Unauthenticated(r)[1])
    ELSE [r EXCEPT !.pc = next, !.reqUser = Bearer(r)]

\* isAdmin
isAdminMiddleware(r, next) ==
    IF Unauthenticated(r) # Null THEN Error(r, 401, Unauthenticated(r)[1])
    ELSE IF Bearer(r)[1].email # AdminEmail
            /\ Bearer(r)[1].role # Some("admin")
    THEN Error(r, 403, "Access denied. Admin privileges required.")
    ELSE [r EXCEPT !.pc = next, !.reqUser = Bearer(r)]

\* getProfile
getProfile(r) ==
    Stay(Reply(r, 200,
               [NoBody EXCEPT
                  !.user = Some(View(r.reqUser[1],
                                     RoleOr(r.reqUser[1], "user")))]))

\* the model instance a handler changes before it saves
Instance(row, changed) == [row |-> row, changed |-> changed]

\* updateProfile up to user.save() (pc "updateProfile"), then the save
updateProfile(r) ==
    LET body == r.body
        row == r.reqUser[1]
        named == IF body.name # Null
                 THEN Instance([row EXCEPT !.name = body.name[1]],
                               IF body.name[1] # row.name THEN {"name"}
                               ELSE {})
                 ELSE Instance(row, {})
    IN  IF r.pc = "updateProfile"
        THEN IF body.newPassword = Null
             THEN Stay([r EXCEPT !.pc = "updateProfile.save",
                                 !.instance = Some(named)])
             ELSE IF body.currentPassword = Null
             THEN Stay(Error(r, 400, "Current password is required"))
             ELSE IF ~ComparePassword(row, body.currentPassword[1])
             THEN Stay(Error(r, 401, "Current password is incorrect"))
             ELSE IF Length(body.newPassword[1]) < 6
             THEN Stay(Error(r, 400, "New password too short"))
             ELSE Stay([r EXCEPT
                          !.pc = "updateProfile.save",
                          !.instance =
                             Some(Instance(
                                [named.row EXCEPT
                                    !.password = body.newPassword[1]],
                                named.changed \cup {"password"}))])
        ELSE Save(r, RoleOr(r.instance[1].row, "user"))

\* getAllUsers
getAllUsers(r) ==
    Stay(Reply(r, 200,
               [NoBody EXCEPT !.users = { View(u, Null) : u \in users }]))

\* the part of updateUser between the email check and user.save()
UpdateUserFields(r, inst) ==
    LET body == r.body
        named == IF body.name # Null
                 THEN Instance([inst.row EXCEPT !.name = body.name[1]],
                               IF body.name[1] # inst.row.name
                               THEN inst.changed \cup {"name"}
                               ELSE inst.changed)
                 ELSE inst
    IN  IF body.password = Null
        THEN [r EXCEPT !.pc = "updateUser.save", !.instance = Some(named)]
        ELSE IF Length(body.password[1]) < 6
        THEN Error(r, 400, "Password must be at least 6 characters long")
        ELSE [r EXCEPT
                !.pc = "updateUser.save",
                !.instance =
                   Some(Instance([named.row EXCEPT
                                     !.password = body.password[1]],
                                 named.changed \cup {"password"}))]

\* updateUser: findByPk (pc "updateUser"), findOne when the email is to
\* change, save
updateUser(r) ==
    LET body == r.body
    IN  IF r.pc = "updateUser"
        THEN LET found == FindByPk(users, r.id)
             IN  IF found = Null THEN Stay(Error(r, 404, "User not found"))
                 ELSE IF body.email # Null /\ body.email[1] # found[1].email
                 THEN Stay([r EXCEPT !.pc = "updateUser.findOne",
                                     !.instance =
                                        Some(Instance(found[1], {}))])
                 ELSE Stay(UpdateUserFields(r, Instance(found[1], {})))
        ELSE IF r.pc = "updateUser.findOne"
        THEN LET inst == r.instance[1]
                 existingUser == FindOne(users, body.email[1])
             IN  IF existingUser # Null /\ existingUser[1].id # inst.row.id
                 THEN Stay(Error(r, 400,
                                 "Email already in use by another user"))
                 ELSE Stay(UpdateUserFields(
                              r, Instance([inst.row EXCEPT
                                              !.email = body.email[1]],
                                          {"email"})))
        ELSE Save(r, Null)

\* deleteUser without the comparison with the caller
deleteUserAnyone(r) ==
    IF r.pc = "deleteUser"
    THEN LET found == FindByPk(users, r.id)
         IN  IF found = Null THEN Stay(Error(r, 404, "User not found"))
             ELSE Stay([r EXCEPT !.pc = "deleteUser.destroy",
                                 !.instance = Some(Instance(found[1], {}))])
    ELSE Out({ u \in users : u.id # r.instance[1].row.id }, nextId,
             Reply(r, 200, NoBody))

\* deleteUser: findByPk (pc "deleteUser"), then destroy
deleteUser(r) ==
    IF r.pc = "deleteUser"
    THEN LET found == FindByPk(users, r.id)
         IN  IF found = Null THEN Stay(Error(r, 404, "User not found"))
             ELSE IF r.reqUser[1].id = found[1].id
             THEN Stay(Error(r, 400, "You cannot delete your own account"))
             ELSE Stay([r EXCEPT !.pc = "deleteUser.destroy",
                                 !.instance = Some(Instance(found[1], {}))])
    ELSE Out({ u \in users : u.id # r.instance[1].row.id }, nextId,
             Reply(r, 200, NoBody))

\* the routes of authRoutes and adminRoutes
AuthRoutes == {"register", "login"}
ProfileRoutes == {"getProfile", "updateProfile"}
AdminRoutes == {"getAllUsers", "updateUser", "deleteUser"}

\* the step of the handler that request r is in
Handle(r) ==
    IF r.pc = "authenticate"
    THEN LET passed == authenticate(r, r.route)
         IN  IF passed.pc = "getProfile" THEN getProfile(passed)
             ELSE IF passed.pc = "updateProfile" THEN updateProfile(passed)
             ELSE Stay(passed)
    ELSE IF r.pc = "isAdmin" THEN Stay(isAdminMiddleware(r, r.route))
    ELSE CASE r.route = "register" -> register(r)
           [] r.route = "login" -> login(r)
           [] r.route = "updateProfile" -> updateProfile(r)
           [] r.route = "getAllUsers" -> getAllUsers(r)
           [] r.route = "updateUser" -> updateUser(r)
           [] r.route = "deleteUser" -> deleteUser(r)

NoFields ==
    [name |-> Null, email |-> Null, password |-> Null,
     confirmPassword |-> Null, currentPassword |-> Null, newPassword |-> Null]

\* a request as it arrives: origin names the code that awaits the response
Request(origin, route, auth, id, body) ==
    [origin |-> origin, route |-> route, auth |-> auth, id |-> id,
     body |-> body,
     pc |-> IF route \in AdminRoutes THEN "isAdmin"
            ELSE IF route \in ProfileRoutes THEN "authenticate"
            ELSE route,
     reqUser |-> Null, instance |-> Null, response |-> Null]

\* a client sends a request
Send(origin, route, auth, id, body) ==
    /\ requests' = requests \cup {Request(origin, route, auth, id, body)}
    /\ Returns("send", <<origin, route, auth, id, body>>, Null)
    /\ UNCHANGED <<users, nextId, catalog, cart, orders, now, session>>

\* the handler of a request under way runs up to its next await; a
\* response to a page waits for the code that awaits it, a response to any
\* other client is delivered at once
Serve(r) ==
    /\ r \in requests
    /\ r.pc # "done"
    /\ users' = Handle(r).users
    /\ nextId' = Handle(r).nextId
    /\ requests' =
          (requests \ {r}) \cup
          (IF Handle(r).request.pc = "done" /\ r.origin = "client"
           THEN {} ELSE {Handle(r).request})
    /\ Returns("serve", <<r>>, Handle(r).request.response)
    /\ UNCHANGED <<catalog, cart, orders, now, session>>

(***************************************************************************)
(* The pages that call the service.  The code of a page up to its await is *)
(* one action and the code after the await another, taken when the         *)
(* response is there.                                                      *)
(***************************************************************************)
\* the request interceptor of api.js: the header carries the stored token
Authorization == authStorage.token

\* the user object a response carries, as the pages keep it
UserData(view) ==
    [id |-> view.id, name |-> Some(view.name), email |-> Some(view.email),
     role |-> IF view.role = Null THEN "user" ELSE view.role[1]]

\* the administrator the Login page signs in without asking the service
LocalAdmin ==
    [name |-> Some("Admin"), email |-> Some(AdminEmail), role |-> "admin"]

\* updateUser(updates) of AuthProvider: { ...prevUser, ...updates }
UpdateUser(updates) ==
    /\ user' = Some(IF user = Null THEN updates ELSE Merge(user[1], updates))
    /\ authStorage' = [authStorage EXCEPT !.user = user']
    /\ Returns("updateUser", <<updates>>, Null)
    /\ UNCHANGED <<catalog, cart, orders, now>>

Status(r) == r.response[1].status

\* the response to r reaches the code that awaits it
Answered(r, origin) ==
    /\ r \in requests
    /\ r.pc = "done"
    /\ r.origin = origin
    /\ requests' = requests \ {r}
    /\ UNCHANGED <<users, nextId>>

\* handleSubmit of the Login page, up to its await
HandleSubmit(formData) ==
    /\ ~isAuthenticated
    /\ IF formData.email \in {"admin", AdminEmail}
          /\ formData.password = AdminPassword
       THEN Login(LocalAdmin, AdminToken) /\ UNCHANGED server
       ELSE Send("handleSubmit", "login", Authorization, 0,
                 [NoFields EXCEPT !.email = Some(formData.email),
                                  !.password = Some(formData.password)])

\* handleSubmit after its await
HandleSubmitResume(r) ==
    /\ Answered(r, "handleSubmit")
    /\ IF Status(r) = 200
       THEN Login(UserData(r.response[1].body.user[1]),
                  r.response[1].body.token[1])
       ELSE /\ Returns("handleSubmit", <<r>>, r.response)
            /\ UNCHANGED <<catalog, cart, orders, now, session>>

\* the Profile page mounts for a signed-in user: fetchProfile up to its
\* await
FetchProfile ==
    /\ isAuthenticated
    /\ Send("fetchProfile", "getProfile", Authorization, 0, NoFields)

\* fetchProfile after its await
FetchProfileResume(r) ==
    /\ Answered(r, "fetchProfile")
    /\ IF Status(r) = 200
       THEN UpdateUser(UserData(r.response[1].body.user[1]))
       ELSE IF Status(r) = 401 THEN Logout
       ELSE /\ Returns("fetchProfile", <<r>>, r.response)
            /\ UNCHANGED <<catalog, cart, orders, now, session>>

\* the Manage Users page mounts for a signed-in administrator: fetchUsers
\* up to its await
FetchUsers ==
    /\ isAuthenticated
    /\ user[1].role = "admin"
    /\ Send("fetchUsers", "getAllUsers", Authorization, 0, NoFields)

\* fetchUsers after its await: the list is shown, or the session is ended
FetchUsersResume(r) ==
    /\ Answered(r, "fetchUsers")
    /\ IF Status(r) = 200
       THEN /\ Returns("fetchUsers", <<r>>, r.response)
            /\ UNCHANGED <<catalog, cart, orders, now, session>>
       ELSE IF Status(r) \in {401, 403} THEN Logout
       ELSE /\ Returns("fetchUsers", <<r>>, r.response)
            /\ UNCHANGED <<catalog, cart, orders, now, session>>

(***************************************************************************)
(* The two effects of CartProvider: after the render that follows a        *)
(* handler, the cart is written if the handler called setCart and the      *)
(* history if it called setOrders; both are written after mounting.        *)
(***************************************************************************)
CartSetters ==
    {"addToCart", "removeFromCart", "updateQuantity", "clearCart", "mount"}

OrdersSetters == {"updateOrderStatus", "deleteOrder", "mount"}

Placed(r) == r.op = "checkoutCart" /\ r.value # Null

SetsCart(r) == r.op \in CartSetters \/ Placed(r)

SetsOrders(r) == r.op \in OrdersSetters \/ Placed(r)

\* one useEffect hook: ran says whether its dependency was set anew
Effect(store, key, value, ran, failed) ==
    IF ran THEN Persist(store, key, value, failed) ELSE store

Effects(failCart, failOrders) ==
    storage' = Effect(Effect(storage, "cart", cart', SetsCart(ret'), failCart),
                      "orders", orders', SetsOrders(ret'), failOrders)

\* the effects when storage takes every write
Saved == Effects(FALSE, FALSE)

(***************************************************************************)
(* Inputs.                                                                 *)
(***************************************************************************)
QuoteIndexes == 1 .. 4
QuoteProductIds ==
    { catalog.products[i].id : i \in QuoteIndexes \cap DOMAIN catalog.products }
        \cup {GhostId}
NarrowIndexes == {1, 3}
NarrowProductIds == { catalog.products[i].id : i \in NarrowIndexes }
FirstProductId == catalog.products[1].id

NoUser == [name |-> Null, email |-> Null]
Alex ==
    [name |-> Some("Alex"), email |-> Some("alex@example.com"),
     role |-> "user"]
Sam ==
    [name |-> Some("Sam"), email |-> Some("sam@example.com"),
     role |-> "user"]
\* a second account registered under the name Alex
Alexis ==
    [name |-> Some("Alex"), email |-> Some("alexis@example.com"),
     role |-> "user"]
Admin ==
    [name |-> Some("Admin"), email |-> Some("admin@cleancart.com"),
     role |-> "admin"]

noShipping ==
    [name |-> "", email |-> "", phone |-> "", address |-> "",
     city |-> "", zip |-> ""]
cardPayment == [method |-> "card", note |-> ""]

Params(account, storeId) ==
    [user |-> account, storeId |-> storeId, address |-> Some("123 Market St"),
     paymentMethod |-> Some("card"), paymentNote |-> Null]

AllStoreIdArgs == {Null, Some("nowhere")} \cup { Some(id) : id \in StoreIds }

\* the cart stays within the exploration bounds after addToCart(productId)
AddFits(productId, maxQty) ==
    LET Same(item) == item.productId = productId
        existing == First(SelectSeq(cart, Same))
    IN  IF existing = Null THEN Len(cart) < MaxCartLen
        ELSE existing[1].quantity < maxQty

CartOps(ids, maxQty) ==
    \/ \E productId \in ids :
          AddFits(productId, maxQty) /\ AddToCart(productId)
    \/ \E productId \in ids : RemoveFromCart(productId)
    \/ \E productId \in ids, quantity \in -1 .. maxQty :
          UpdateQuantity(productId, quantity)
    \/ ClearCart

(***************************************************************************)
(* SpecQuote: the cart over the first products of the catalog and an       *)
(* unknown id; the quotes and the best store are functions of the cart.    *)
(***************************************************************************)
NextQuote ==
    /\ CartOps(QuoteProductIds, MaxQty)
    /\ Saved
    /\ UNCHANGED session
    /\ UNCHANGED server

SpecQuote == Init /\ [][NextQuote]_vars

(***************************************************************************)
(* Spec: carts of two products, checked out with every kind of storeId     *)
(* argument.                                                               *)
(***************************************************************************)
Checkout(accounts, storeIdArgs, cap) ==
    \E account \in accounts, storeId \in storeIdArgs :
        /\ Len(cart) = 0 \/ Len(orders) < cap
        /\ CheckoutCart(Params(account, storeId))

Next ==
    /\ \/ CartOps(NarrowProductIds, MaxCheckoutQty)
       \/ Checkout({Alex}, AllStoreIdArgs, MaxOrders)
    /\ Saved
    /\ UNCHANGED session
    /\ UNCHANGED server

Spec == Init /\ [][Next]_vars

(***************************************************************************)
(* SpecOrders: a longer history over the carts of one product, with        *)
(* deletions and the clock.                                                *)
(***************************************************************************)
NextOrders ==
    /\ \/ CartOps({FirstProductId}, MaxQty)
       \/ Checkout({Alex}, {Null}, MaxHistory)
       \/ \E i \in DOMAIN orders : DeleteOrder(orders[i].id)
       \/ now < MaxNow /\ Tick
    /\ Saved
    /\ UNCHANGED session
    /\ UNCHANGED server

SpecOrders == Init /\ [][NextOrders]_vars

(***************************************************************************)
(* SpecHistory: the operations on the history called with the ids of the   *)
(* orders in it and with an id that no order has.                          *)
(***************************************************************************)
UnknownOrderId == OrderId(-1)

OrderIdArgs == { orders[i].id : i \in DOMAIN orders } \cup {UnknownOrderId}

NextHistory ==
    /\ \/ AddFits(FirstProductId, 1) /\ AddToCart(FirstProductId)
       \/ Checkout({Alex}, {Null}, MaxKept)
       \/ \E orderId \in OrderIdArgs, nextStatus \in Range(statusOptions) :
             UpdateOrderStatus(orderId, nextStatus)
       \/ \E orderId \in OrderIdArgs : DeleteOrder(orderId)
       \/ now < MaxNow /\ Tick
    /\ Saved
    /\ UNCHANGED session
    /\ UNCHANGED server

SpecHistory == Init /\ [][NextHistory]_vars

(***************************************************************************)
(* SpecUnknown: carts that mix a catalog product with an id the catalog    *)
(* does not hold, quoted and checked out.                                  *)
(***************************************************************************)
NextUnknown ==
    /\ \/ CartOps({FirstProductId, GhostId}, MaxCheckoutQty)
       \/ Checkout({Alex}, {Null}, MaxOrders)
    /\ Saved
    /\ UNCHANGED session
    /\ UNCHANGED server

SpecUnknown == Init /\ [][NextUnknown]_vars

(***************************************************************************)
(* SpecRestart: cart and history operations with page reloads in between,  *)
(* over a storage that takes every write.  checkoutCart is called with     *)
(* and without an address.                                                 *)
(***************************************************************************)
AddressArgs == {Null, Some("123 Market St")}

StoredOps(addressArgs) ==
    \/ AddFits(FirstProductId, 1) /\ AddToCart(FirstProductId)
    \/ \E address \in addressArgs :
          /\ Len(cart) = 0 \/ Len(orders) < MaxStored
          /\ CheckoutCart([Params(Alex, Null) EXCEPT !.address = address])
    \/ \E i \in DOMAIN orders, nextStatus \in Range(statusOptions) :
          UpdateOrderStatus(orders[i].id, nextStatus)
    \/ \E i \in DOMAIN orders : DeleteOrder(orders[i].id)

NextRestart ==
    /\ \/ StoredOps(AddressArgs)
       \/ RemoveFromCart(FirstProductId)
       \/ now < MaxNow /\ Tick
       \/ Mount(FALSE)
    /\ Saved
    /\ UNCHANGED session
    /\ UNCHANGED server

SpecRestart == Init /\ [][NextRestart]_vars

(***************************************************************************)
(* SpecStorage: the same over a storage that may refuse a read or a        *)
(* write, and whose texts may be removed or cut short from outside.        *)
(***************************************************************************)
Keys == {"cart", "orders"}

\* the text keeping its first n elements and losing the rest
CutShort(text, n) == [elems |-> SubSeq(text.elems, 1, n), closed |-> FALSE]

Damage(key) ==
    /\ \/ storage' = [storage EXCEPT ![key] = Null]
       \/ /\ storage[key] # Null
          /\ \E n \in 0 .. Len(storage[key][1].elems) :
                storage' = [storage EXCEPT
                              ![key] = Some(CutShort(storage[key][1], n))]
    /\ Returns("damage", <<key>>, Null)
    /\ UNCHANGED <<catalog, cart, orders, now, session>>

NextStorage ==
    /\ \/ /\ StoredOps({Null}) \/ \E denied \in BOOLEAN : Mount(denied)
          /\ \E failCart, failOrders \in BOOLEAN :
                Effects(failCart, failOrders)
          /\ UNCHANGED session
       \/ \E key \in Keys : Damage(key)
    /\ UNCHANGED server

SpecStorage == Init /\ [][NextStorage]_vars

(***************************************************************************)
(* SpecDashboard: what signed-in people can do through the Products and    *)
(* Dashboard pages.  Filling in the checkout dialog takes a person longer  *)
(* than a millisecond, so the clock has moved since the last order.        *)
(***************************************************************************)
Accounts == {Alex, Alexis, Sam, Admin}

\* the token the Login page stores for an account
TokenFor(userData) ==
    IF userData = Admin THEN AdminToken ELSE GenerateToken(1)

NextDashboard ==
    /\ \/ \E userData \in Accounts :
             ~isAuthenticated /\ Login(userData, TokenFor(userData))
       \/ isAuthenticated /\ Logout
       \/ /\ isAuthenticated
          /\ AddFits(FirstProductId, 1)
          /\ AddToCart(FirstProductId)
          /\ UNCHANGED session
       \/ /\ Len(orders) < MaxListed
          /\ \A i \in DOMAIN orders : orders[i].placedAt < now
          /\ HandlePlaceOrder(catalog.stores[1].id, noShipping, cardPayment)
       \/ \E order \in Range(orders), opt \in Range(statusOptions) :
             StatusSelectChange(order, opt)
       \/ \E order \in Range(orders) : HandleConfirmDelete(order)
       \/ now < MaxNow /\ Tick /\ UNCHANGED session
    /\ Saved
    /\ UNCHANGED server

SpecDashboard == Init /\ [][NextDashboard]_vars

(***************************************************************************)
(* SpecSession: one browser and the service.  People register, the         *)
(* administrator's row is provisioned by a login sent to the service, and  *)
(* the Login, Profile and Manage Users pages are used while responses may  *)
(* still be on their way.                                                  *)
(***************************************************************************)
MaxInFlight == 1     \* requests under way, under SpecSession

AnnEmail == "ann@example.com"
AnnPassword == "hunter22"

RegisterForm(name, email, password) ==
    [NoFields EXCEPT !.name = Some(name), !.email = Some(email),
                     !.password = Some(password),
                     !.confirmPassword = Some(password)]

Credentials(email, password) ==
    [NoFields EXCEPT !.email = Some(email), !.password = Some(password)]

LoginForms ==
    { [email |-> "admin", password |-> AdminPassword],
      [email |-> AnnEmail, password |-> AnnPassword],
      [email |-> AnnEmail, password |-> "abc"] }

Room(cap) == Cardinality(requests) < cap

NextSession ==
    /\ \/ /\ Room(MaxInFlight)
          /\ Send("client", "register", Null, 0,
                  RegisterForm("Ann", AnnEmail, AnnPassword))
       \/ /\ Room(MaxInFlight)
          /\ Send("client", "login", Null, 0,
                  Credentials(AdminEmail, AdminPassword))
       \/ \E formData \in LoginForms :
             Room(MaxInFlight) /\ HandleSubmit(formData)
       \/ \E r \in requests : HandleSubmitResume(r)
       \/ isAuthenticated /\ Logout /\ UNCHANGED server
       \/ Room(MaxInFlight) /\ FetchProfile
       \/ \E r \in requests : FetchProfileResume(r)
       \/ Room(MaxInFlight) /\ FetchUsers
       \/ \E r \in requests : FetchUsersResume(r)
       \/ \E r \in requests : Serve(r)
    /\ Saved

SpecSession == Init /\ [][NextSession]_vars

(***************************************************************************)
(* Clients of the service hold any token it has issued.                    *)
(***************************************************************************)
\* the tokens the service has signed so far
Issued == { GenerateToken(id) : id \in 1 .. nextId - 1 }

\* what a client may put in the Authorization header
Headers == {Null, Some(AdminToken)} \cup { Some(token) : token \in Issued }

RowIds == 1 .. nextId - 1

\* the rows inserted and about to be inserted stay within the bound
RoomForRow(cap) ==
    LET Creating(r) == r.route \in AuthRoutes /\ r.pc # "done"
    IN  nextId + Cardinality({ r \in requests : Creating(r) }) <= cap

Emails == {AdminEmail, AnnEmail}

\* POST /api/auth/register
SendRegister(email, concurrent, rows) ==
    /\ Room(concurrent)
    /\ RoomForRow(rows)
    /\ Send("client", "register", Null, 0,
            RegisterForm("Ann", email, AnnPassword))

\* POST /api/auth/login
SendLogin(email, password, concurrent) ==
    /\ Room(concurrent)
    /\ Send("client", "login", Null, 0, Credentials(email, password))

\* POST /api/auth/login with the administrator's credentials
SendAdminLogin(concurrent, rows) ==
    /\ RoomForRow(rows)
    /\ SendLogin(AdminEmail, AdminPassword, concurrent)

(***************************************************************************)
(* SpecEmails: requests that insert a row or change an email take turns at *)
(* their awaits.                                                           *)
(***************************************************************************)
MaxRacing == 2       \* requests under way, under SpecEmails
MaxRows == 2         \* rows ever inserted, under SpecEmails

NextEmails ==
    /\ \/ \E email \in Emails : SendRegister(email, MaxRacing, MaxRows)
       \/ SendAdminLogin(MaxRacing, MaxRows)
       \/ \E token \in Issued, id \in RowIds, email \in Emails :
             /\ Room(MaxRacing)
             /\ Send("client", "updateUser", Some(token), id,
                     [NoFields EXCEPT !.email = Some(email)])
       \/ \E r \in requests : Serve(r)
    /\ Saved

SpecEmails == Init /\ [][NextEmails]_vars

(***************************************************************************)
(* SpecAdmin: administrators are provisioned, given another email and      *)
(* deleted, by requests that take turns at their awaits.                   *)
(***************************************************************************)
MaxPending == 2      \* requests under way, under SpecAdmin
MaxAdmins == 2       \* rows ever inserted, under SpecAdmin

NextAdmin ==
    /\ \/ SendAdminLogin(MaxPending, MaxAdmins)
       \/ \E token \in Issued :
             /\ Room(MaxPending)
             /\ Send("client", "updateUser", Some(token), Verify(token)[1],
                     [NoFields EXCEPT !.email = Some(AnnEmail)])
       \/ \E token \in Issued, id \in RowIds :
             /\ Room(MaxPending)
             /\ Send("client", "deleteUser", Some(token), id, NoFields)
       \/ \E r \in requests : Serve(r)
    /\ Saved

SpecAdmin == Init /\ [][NextAdmin]_vars

(***************************************************************************)
(* SpecAccounts: people register under any email, sign in with right and   *)
(* wrong passwords, change passwords, and call the admin routes with every *)
(* kind of Authorization header.                                           *)
(***************************************************************************)
MaxWaiting == 1      \* requests under way, under SpecAccounts
MaxAccounts == 2     \* rows ever inserted, under SpecAccounts

NewPassword == "letmein7"

Passwords == {AnnPassword, AdminPassword, NewPassword}

NextAccounts ==
    /\ \/ \E email \in Emails : SendRegister(email, MaxWaiting, MaxAccounts)
       \/ \E email \in Emails \cup {"admin"}, password \in Passwords :
             /\ RoomForRow(MaxAccounts)
             /\ SendLogin(email, password, MaxWaiting)
       \/ \E token \in Issued, password \in {AnnPassword, AdminPassword} :
             /\ Room(MaxWaiting)
             /\ Send("client", "updateProfile", Some(token), 0,
                     [NoFields EXCEPT !.currentPassword = Some(password),
                                      !.newPassword = Some(NewPassword)])
       \/ \E token \in Issued, id \in RowIds :
             /\ Room(MaxWaiting)
             /\ Send("client", "updateUser", Some(token), id,
                     [NoFields EXCEPT !.password = Some(NewPassword)])
       \/ \E auth \in Headers :
             /\ Room(MaxWaiting)
             /\ Send("client", "getAllUsers", auth, 0, NoFields)
       \/ \E auth \in Headers, id \in RowIds :
             /\ Room(MaxWaiting)
             /\ Send("client", "deleteUser", auth, id, NoFields)
       \/ \E r \in requests : Serve(r)
    /\ Saved

SpecAccounts == Init /\ [][NextAccounts]_vars

(***************************************************************************)
(* Properties.                                                             *)
(***************************************************************************)
IsCheckout(r) == r.op = "checkoutCart"

\* C1: checkoutCart called with a non-empty cart empties the cart and puts
\* exactly one new order, with status Pending, in front of the previous
\* history, which is otherwise kept as it was.
C1_CheckoutPrepends ==
    [][ (IsCheckout(ret') /\ Len(cart) > 0) =>
          /\ cart' = <<>>
          /\ Len(orders') = Len(orders) + 1
          /\ orders'[1].status = "Pending"
          /\ ret'.value = Some(orders'[1])
          /\ \A i \in DOMAIN orders : orders'[i + 1] = orders[i] ]_vars

C1_Witness ==
    /\ IsCheckout(ret)
    /\ ret.value # Null
    /\ cart = <<>>
    /\ Len(orders) >= 3
    /\ orders[2] # orders[3]

\* C2: checkoutCart on an empty cart returns null and changes neither the
\* order history nor the cart.
C2_EmptyCheckoutNoEffect ==
    [][ (IsCheckout(ret') /\ Len(cart) = 0) =>
          /\ ret'.value = Null
          /\ orders' = orders
          /\ cart' = cart ]_vars

C2_Witness ==
    /\ IsCheckout(ret)
    /\ ret.value = Null
    /\ cart = <<>>
    /\ Len(orders) >= 1

Viable(pm) == { i \in DOMAIN pm : pm[i].missingCount = 0 }

\* the best store is absent or a quote with nothing missing
NothingMissing(best) == best = Null \/ best[1].missingCount = 0

\* C3 as stated: for every cart, the best store of checkoutCart and of the
\* Products page is null or a quote with missingCount 0, and it is null
\* exactly when no quote has missingCount 0.
C3_Original ==
    LET pm == priceMatrix
        page == ProductsBestStoreOf(cart, pm)
        checkout == BestStoreOf(pm)
    IN  /\ NothingMissing(page)
        /\ page = Null <=> Viable(pm) = {}
        /\ Len(cart) > 0 =>
              /\ NothingMissing(checkout)
              /\ checkout = Null <=> Viable(pm) = {}

\* C3 (amended): the best store of checkoutCart and of the Products page is
\* null or a quote with missingCount 0; for a non-empty cart it is null
\* exactly when no quote has missingCount 0, and for the empty cart the
\* Products page has no best store.
C3_BestStoreViable ==
    LET pm == priceMatrix
        page == ProductsBestStoreOf(cart, pm)
        checkout == BestStoreOf(pm)
    IN  /\ NothingMissing(page)
        /\ page = Null <=> (Len(cart) = 0 \/ Viable(pm) = {})
        /\ Len(cart) > 0 =>
              /\ NothingMissing(checkout)
              /\ checkout \in { Some(pm[i]) : i \in Viable(pm) } \cup {Null}
              /\ checkout = Null <=> Viable(pm) = {}
              /\ page = checkout

\* a cheaper quote with something missing was passed over
C3_Witness ==
    LET pm == priceMatrix
        best == BestStoreOf(pm)
    IN  /\ Len(cart) > 0
        /\ best # Null
        /\ ProductsBestStoreOf(cart, pm) = best
        /\ \E i \in DOMAIN pm : /\ pm[i].missingCount > 0
                                 /\ pm[i].total < best[1].total

\* the first quote, in store order, whose total no viable quote undercuts
FirstCheapest(pm) ==
    CHOOSE i \in Viable(pm) :
        \A j \in Viable(pm) :
            \/ pm[i].total < pm[j].total
            \/ pm[i].total = pm[j].total /\ i <= j

\* C4: when some quote has missingCount 0, the best store of checkoutCart
\* is the quote of minimum total among those, the first declared store
\* winning among equal totals.
C4_MinTotalFirstDeclared ==
    LET pm == priceMatrix
    IN  (Len(cart) > 0 /\ Viable(pm) # {}) =>
            BestStoreOf(pm) = Some(pm[FirstCheapest(pm)])

\* two viable stores share the minimum and an earlier store costs more
C4_Witness ==
    LET pm == priceMatrix
    IN  /\ Len(cart) > 0
        /\ \E i, j, k \in Viable(pm) :
              /\ k < i /\ i < j
              /\ pm[i].total = pm[j].total
              /\ pm[k].total > pm[i].total
              /\ BestStoreOf(pm) = Some(pm[i])

\* the catalog products that have an entry in cart c
ProductsIn(c) == { e.productId : e \in Range(c) } \cap CatalogIds

\* C5: for every cart and every store, missingCount + availableCount is the
\* number of distinct products in the cart.
C5_CountsAddUp ==
    \A i \in DOMAIN priceMatrix :
        priceMatrix[i].missingCount + priceMatrix[i].availableCount
            = Cardinality(ProductsIn(cart))

C5_Witness ==
    /\ Len(cart) >= 2
    /\ \E i \in DOMAIN priceMatrix :
          /\ priceMatrix[i].missingCount >= 1
          /\ priceMatrix[i].availableCount >= 1

\* the catalog record of a product id
ProductOf(productId) ==
    CHOOSE p \in Range(catalog.products) : p.id = productId

\* product productId is on offer and available at store storeId
OnOffer(productId, storeId) ==
    LET pricing == ProductOf(productId).pricing
    IN  storeId \in DOMAIN pricing /\ pricing[storeId].available

\* C6: a store's quote has missingCount 0 if and only if every product in
\* the cart has an available offer at that store.
C6_MissingZeroIffAllOffered ==
    \A i \in DOMAIN priceMatrix :
        priceMatrix[i].missingCount = 0
            <=> \A productId \in ProductsIn(cart) :
                    OnOffer(productId, catalog.stores[i].id)

\* one store stocks the whole cart, another has a product listed but
\* unavailable, a third does not list a product at all
C6_Witness ==
    /\ Len(cart) >= 1
    /\ \E i, j, k \in DOMAIN priceMatrix :
          /\ priceMatrix[i].missingCount = 0
          /\ priceMatrix[j].missingCount > 0
          /\ \E productId \in ProductsIn(cart) :
                /\ catalog.stores[j].id \in DOMAIN ProductOf(productId).pricing
                /\ ~OnOffer(productId, catalog.stores[j].id)
          /\ priceMatrix[k].missingCount > 0
          /\ \E productId \in ProductsIn(cart) :
                catalog.stores[k].id \notin DOMAIN ProductOf(productId).pricing

\* price x quantity summed over the entries of c on offer at storeId
RECURSIVE AvailableSum(_, _)
AvailableSum(c, storeId) ==
    IF c = <<>> THEN 0
    ELSE LET entry == Head(c)
             mine ==
               IF /\ entry.productId \in CatalogIds
                  /\ OnOffer(entry.productId, storeId)
               THEN ProductOf(entry.productId).pricing[storeId].price
                        * entry.quantity
               ELSE 0
         IN  mine + AvailableSum(Tail(c), storeId)

\* C7: a store's quote total is its delivery fee plus price x quantity over
\* the cart entries with an available offer there; the other entries add
\* nothing.
C7_TotalIsFeePlusAvailable ==
    \A i \in DOMAIN priceMatrix :
        priceMatrix[i].total
            = catalog.stores[i].deliveryFee
                + AvailableSum(cart, catalog.stores[i].id)

\* a quote made of an entry bought twice and an entry it does not stock
C7_Witness ==
    \E i \in DOMAIN priceMatrix :
        /\ priceMatrix[i].missingCount >= 1
        /\ \E k \in DOMAIN priceMatrix[i].items :
              /\ priceMatrix[i].items[k].quantity >= 2
              /\ priceMatrix[i].items[k].price > 0
        /\ priceMatrix[i].total > catalog.stores[i].deliveryFee

QuoteIds(order) == { q.id : q \in Range(order.storeComparisons) }

C9_QuantitiesPositive ==
    \A i \in DOMAIN cart : cart[i].quantity >= 1

\* after a checkout, an entry added again holds the quantity >= 2 that
\* updateQuantity gave it
C9_Witness ==
    /\ ret.op = "updateQuantity"
    /\ ret.args[2] >= 2
    /\ Len(cart) >= 1
    /\ cart[1].quantity = ret.args[2]
    /\ Len(orders) >= 1

\* the positions of c whose entry is not for productId
Kept(c, productId) == { i \in DOMAIN c : c[i].productId # productId }

\* C10: updateQuantity(productId, q) with q <= 0 leaves the state
\* removeFromCart(productId) would: the entry for productId is gone and
\* every other entry is unchanged, in its place.
C10_NonPositiveQuantityRemoves ==
    [][ (ret'.op = "updateQuantity" /\ ret'.args[2] <= 0) =>
          LET productId == ret'.args[1]
              kept == Kept(cart, productId)
          IN  /\ Len(cart') = Cardinality(kept)
              /\ \A i \in kept :
                    cart'[Cardinality({ j \in kept : j <= i })] = cart[i]
              /\ orders' = orders ]_vars

\* updateQuantity(productId, q <= 0) has run and an entry for another
\* product is still in the cart
C10_Witness ==
    /\ ret.op = "updateQuantity"
    /\ ret.args[2] <= 0
    /\ ret.args[1] \in CatalogIds
    /\ Len(cart) >= 1
    /\ \A i \in DOMAIN cart : cart[i].productId # ret.args[1]

\* the positions of c that hold an entry for productId
EntriesFor(c, productId) == { i \in DOMAIN c : c[i].productId = productId }

\* C11: starting from the empty cart, the cart never holds two entries for
\* one productId, and addToCart on a product already in the cart adds 1 to
\* that entry's quantity and adds no entry.
C11_OneEntryPerProduct ==
    [][ /\ \A i, j \in DOMAIN cart' :
              cart'[i].productId = cart'[j].productId => i = j
        /\ (ret'.op = "addToCart" /\ EntriesFor(cart, ret'.args[1]) # {}) =>
              /\ Len(cart') = Len(cart)
              /\ \A i \in DOMAIN cart :
                    cart'[i] = IF i \in EntriesFor(cart, ret'.args[1])
                               THEN [cart[i] EXCEPT !.quantity = @ + 1]
                               ELSE cart[i] ]_vars

\* addToCart has raised the quantity of the first of two entries
C11_Witness ==
    /\ ret.op = "addToCart"
    /\ Len(cart) = 2
    /\ cart[1].productId = ret.args[1]
    /\ cart[1].quantity = 2
    /\ cart[2].productId # ret.args[1]

Owner(o) == user # Null /\ Some(o.customer) = user[1].name

\* C14 as stated: an order's status is changed only by an administrator,
\* and an order is deleted only by its owner while its status is Pending
\* or by an administrator.
C14_Original ==
    [][ /\ ret'.op = "updateOrderStatus" => isAdmin
        /\ ret'.op = "deleteOrder" =>
              \A i \in DOMAIN orders :
                  orders[i].id = ret'.args[1] =>
                      \/ isAdmin
                      \/ Owner(orders[i]) /\ orders[i].status = "Pending" ]_vars

\* everything an order holds but its status
Snapshot(o) == [ f \in DOMAIN o \ {"status"} |-> o[f] ]

Snapshots(os) == [ k \in DOMAIN os |-> Snapshot(os[k]) ]

\* the history without the order that call r has just placed, if any
Earlier(os, r) == IF Placed(r) THEN Tail(os) ELSE os

\* the orders that call r does not delete
Survivors(os, r) ==
    LET Stays(o) == r.op # "deleteOrder" \/ o.id # r.args[1]
    IN  SelectSeq(os, Stays)

\* C13: whatever the operation, the orders already in history that it does
\* not delete are still there afterwards, in the same order and with every
\* field but status as it was.
C13_OnlyStatusChanges ==
    [][ Snapshots(Earlier(orders', ret'))
          = Snapshots(Survivors(orders, ret')) ]_vars

\* of two orders, the newer one has had its status changed and still holds
\* the items and the quotes it was placed with
C13_Witness ==
    /\ ret.op = "updateOrderStatus"
    /\ Len(orders) >= 2
    /\ orders[1].status # "Pending"
    /\ orders[2].status = "Pending"
    /\ orders[1].storeComparisons # priceMatrix
    /\ Len(orders[1].items) >= 1

\* C15: updateOrderStatus(orderId, nextStatus) gives nextStatus to the
\* order whose id is orderId and leaves every order with another id, the
\* length and order of history and the cart as they were; when no order
\* has that id, history is unchanged.
C15_StatusUpdateFrame ==
    [][ ret'.op = "updateOrderStatus" =>
          LET orderId == ret'.args[1]
              nextStatus == ret'.args[2]
          IN  /\ Len(orders') = Len(orders)
              /\ \A i \in DOMAIN orders :
                    IF orders[i].id = orderId
                    THEN orders'[i].status = nextStatus
                    ELSE orders'[i] = orders[i]
              /\ cart' = cart
              /\ (\A i \in DOMAIN orders : orders[i].id # orderId)
                    => orders' = orders ]_vars

\* the older of two orders has been given a status the newer one does not
\* have
C15_Witness ==
    /\ ret.op = "updateOrderStatus"
    /\ Len(orders) = 2
    /\ orders[2].id = ret.args[1]
    /\ orders[1].id # ret.args[1]
    /\ orders[2].status = ret.args[2]
    /\ orders[1].status # ret.args[2]

\* the sequence os without its element at position k
Without(os, k) == SubSeq(os, 1, k - 1) \o SubSeq(os, k + 1, Len(os))

\* C16 as stated: deleteOrder(orderId) shortens history by exactly one
\* order, one whose id is orderId, when the id is present, keeps the other
\* orders in their relative positions, and leaves history unchanged when
\* the id is not found.
C16_Original ==
    [][ ret'.op = "deleteOrder" =>
          LET orderId == ret'.args[1]
              hits == { i \in DOMAIN orders : orders[i].id = orderId }
          IN  /\ hits # {} => \E k \in hits : orders' = Without(orders, k)
              /\ hits = {} => orders' = orders ]_vars

\* C17 as stated: no two orders in history share an id.
C17_Original ==
    \A i, j \in DOMAIN orders : orders[i].id = orders[j].id => i = j

\* load cannot use what is stored under key: reading is refused, nothing
\* is stored, or the text does not parse
Unusable(store, key, denied) ==
    denied \/ store[key] = Null \/ ~Parses(store[key][1])

\* what the operations read of a cart entry and of an order
IsEntry(e) == DOMAIN e = {"productId", "quantity"}

IsOrder(o) ==
    {"id", "status", "customer", "items", "storeComparisons"} \subseteq DOMAIN o

Field(o, f) == IF f \in DOMAIN o THEN o[f] ELSE Null

SameFields(a, b) ==
    \A f \in DOMAIN a \cup DOMAIN b : Field(a, f) = Field(b, f)

KnownEntries(c) ==
    LET Known(e) == e.productId \in CatalogIds
    IN  SelectSeq(c, Known)

\* C20: the quotes of a cart are the quotes of the cart without its
\* entries for unknown product ids, and checkoutCart on such a cart places
\* an order that holds those quotes and one item per cart entry.
C20_UnknownProductSkipped ==
    [][ /\ PriceMatrixOf(cart') = PriceMatrixOf(KnownEntries(cart'))
        /\ (IsCheckout(ret') /\ Len(cart) > 0) =>
              /\ ret'.value # Null
              /\ orders'[1].storeComparisons = PriceMatrixOf(KnownEntries(cart))
              /\ Len(orders'[1].items) = Len(cart)
              /\ orders'[1].bestStoreId
                    = StrOrNull(BestStoreOf(PriceMatrixOf(KnownEntries(cart))),
                                "id") ]_vars

\* an order placed from a cart holding a catalog product and an unknown
\* id: the item of the unknown id has its quantity and nothing else
C20_Witness ==
    /\ IsCheckout(ret)
    /\ ret.value # Null
    /\ Len(orders[1].items) = 2
    /\ DOMAIN orders[1].items[1] = {"quantity"}
    /\ "name" \in DOMAIN orders[1].items[2]
    /\ orders[1].bestStoreId # Null
    /\ \E i \in DOMAIN orders[1].storeComparisons :
          orders[1].storeComparisons[i].availableCount = 1

\* the quotes of pm whose id is the given storeId
Matching(pm, storeId) ==
    { i \in DOMAIN pm : storeId # Null /\ pm[i].id = storeId[1] }

\* C24: checkoutCart selects the quote whose id equals the given storeId
\* when storeId is given and matches a store, and otherwise the best store
\* (the cheapest quote with nothing missing, if there is one); the order's
\* selectedStoreId and selectedStoreName are those of the chosen quote.
C24_SelectsGivenOrBest ==
    (IsCheckout(ret) /\ ret.value # Null) =>
        LET order == orders[1]
            pm == order.storeComparisons
            storeId == ret.args[1].storeId
            matching == Matching(pm, storeId)
        IN  /\ order = ret.value[1]
            /\ matching # {} =>
                  \E i \in matching :
                      /\ order.selectedStoreId = Some(pm[i].id)
                      /\ order.selectedStoreId = storeId
                      /\ order.selectedStoreName = Some(pm[i].name)
            /\ (matching = {} /\ Viable(pm) # {}) =>
                  /\ order.selectedStoreId = Some(pm[FirstCheapest(pm)].id)
                  /\ order.selectedStoreName = Some(pm[FirstCheapest(pm)].name)
                  /\ order.selectedStoreId = order.bestStoreId
            /\ (matching = {} /\ Viable(pm) = {}) =>
                  order.selectedStoreId = Null

\* an order placed with the id of a store that is not the best one, and
\* that has something missing
C24_Witness ==
    /\ IsCheckout(ret)
    /\ ret.value # Null
    /\ ret.args[1].storeId # Null
    /\ orders[1].selectedStoreId = ret.args[1].storeId
    /\ orders[1].bestStoreId # Null
    /\ orders[1].selectedStoreId # orders[1].bestStoreId
    /\ \E i \in Matching(orders[1].storeComparisons, ret.args[1].storeId) :
          orders[1].storeComparisons[i].missingCount > 0

\* the item carries the details of product p and the quantity of entry e
Carries(item, p, e) ==
    /\ {"id", "name", "brand", "category", "specs", "quantity"}
          \subseteq DOMAIN item
    /\ item.id = p.id
    /\ item.name = p.name
    /\ item.brand = p.brand
    /\ item.category = p.category
    /\ item.specs = p.specs
    /\ item.quantity = e.quantity

\* C25 as stated: the items snapshot of every order has one element per
\* cart entry at checkout time, each carrying the product's details (id,
\* name, brand, category, specs) and the entry's quantity.
C25_Original ==
    [][ (IsCheckout(ret') /\ ret'.value # Null) =>
          /\ Len(orders'[1].items) = Len(cart)
          /\ \A k \in DOMAIN cart :
                \E p \in Range(catalog.products) :
                    /\ p.id = cart[k].productId
                    /\ Carries(orders'[1].items[k], p, cart[k]) ]_vars

C26_NonZeroAmounts ==
    \A i \in DOMAIN orders :
        orders[i].selectedStoreId # Null =>
            \E k \in DOMAIN orders[i].storeComparisons :
                LET quote == orders[i].storeComparisons[k]
                IN  /\ orders[i].selectedStoreId = Some(quote.id)
                    /\ orders[i].selectedStoreName = Some(quote.name)
                    /\ quote.total > 0 =>
                          orders[i].selectedStoreTotal = Some(quote.total)
                    /\ quote.deliveryFee > 0 =>
                          orders[i].selectedStoreDelivery
                              = Some(quote.deliveryFee)
                    /\ quote.total = 0 => orders[i].selectedStoreTotal = Null
                    /\ quote.deliveryFee = 0 =>
                          orders[i].selectedStoreDelivery = Null

\* the order was placed by the account that is signed in
PlacedBySelf(order) ==
    user # Null /\ Some(order.customerEmail) = user[1].email

\* C29 as stated: a non-admin user's dashboard never lists, and never lets
\* that user cancel or delete, an order placed by a different user account
\* sharing the same browser storage.
C29_Original ==
    (isAuthenticated /\ ~isAdmin) =>
        /\ \A order \in Range(myOrders) : PlacedBySelf(order)
        /\ \A order \in DeleteOffered : PlacedBySelf(order)

\* nobody is signed in and localStorage holds neither 'user' nor 'token'
LoggedOut == user = Null /\ ~isAuthenticated /\ authStorage = SignedOut

\* C28 as stated: once logout has run, the auth state stays logged out
\* (user null, isAuthenticated false, no 'user' and no 'token' in storage)
\* until the next login call, even when a profile request issued before
\* the logout completes afterwards and calls updateUser.
C28_Original ==
    [][ /\ ret'.op = "logout" => LoggedOut'
        /\ (LoggedOut /\ ret'.op # "login") => LoggedOut' ]_vars

\* the response that a step hands to fetchUsers
FetchUsersAnswer ==
    { r \in requests : r.origin = "fetchUsers" /\ r.pc = "done" }

\* C30 as stated, in the form a finite run refutes: when Manage Users is
\* opened by the administrator who signed in through the Login page with
\* the admin credentials, the token stored at login is accepted by the
\* admin middleware, so that the response shows the user list and the
\* administrator stays signed in.
C30_Original ==
    [][ \A r \in FetchUsersAnswer :
          (r \notin requests' /\ r.auth = Some(AdminToken)) =>
              /\ ret'.op = "fetchUsers"
              /\ ret'.value[1].status = 200
              /\ user' = user
              /\ isAuthenticated' ]_vars

\* no two rows of the table share an email
EmailsUnique(table) ==
    \A u, v \in table : u.email = v.email => u.id = v.id

\* the steps that write to the table
Writes == {"register.create", "login.create", "updateUser.save"}

\* C22: after any interleaving of register, admin updateUser and admin
\* auto-provisioning requests, including concurrent requests for the same
\* email, no two user rows share an email; a step that writes to the table
\* either succeeds and leaves the emails unique, or answers with an error
\* status and leaves the table as it was.
C22_EmailsStayUnique ==
    /\ []EmailsUnique(users)
    /\ [][ (ret'.op = "serve" /\ ret'.args[1].pc \in Writes) =>
              \/ /\ ret'.value[1].status \in {200, 201}
                 /\ EmailsUnique(users')
              \/ /\ ret'.value[1].status \in {400, 500}
                 /\ users' = users ]_vars

\* a register request whose own look-up found the email free, and whose
\* insert was refused because a concurrent request had taken the email
C22_Witness ==
    /\ ret.op = "serve"
    /\ ret.args[1].pc = "register.create"
    /\ ret.value[1].status = 400
    /\ \E u \in users : Some(u.email) = ret.args[1].body.email

\* the step in which deleteUser looks up the row that request r names
IsDeleteLookup(r) == r.route = "deleteUser" /\ r.pc = "deleteUser"

\* request r asks for the deletion of the caller's own row
OwnId(r) == r.reqUser # Null /\ r.id = r.reqUser[1].id

\* C21 as stated: a DELETE /api/admin/users/:id whose id is the caller's
\* own id returns 400 and leaves the users table unchanged.
C21_Original ==
    [][ ( /\ ret'.op = "serve"
          /\ IsDeleteLookup(ret'.args[1])
          /\ OwnId(ret'.args[1]) ) =>
            /\ ret'.value # Null
            /\ ret'.value[1].status = 400
            /\ users' = users ]_vars

\* C21 (amended): deleteUser never deletes the account of the
\* administrator who issues the request: a DELETE whose id is the caller's
\* own id leaves the users table unchanged and returns 400, or 404 when
\* the caller's row has been deleted by another administrator's request
\* since the middleware found it; and no destroy removes its caller's row.
C21_SelfDeleteRefused ==
    [][ /\ ( /\ ret'.op = "serve"
             /\ IsDeleteLookup(ret'.args[1])
             /\ OwnId(ret'.args[1]) ) =>
               /\ ret'.value # Null
               /\ ret'.value[1].status
                     = IF FindByPk(users, ret'.args[1].id) # Null
                       THEN 400 ELSE 404
               /\ users' = users
        /\ ( /\ ret'.op = "serve"
             /\ ret'.args[1].route = "deleteUser" ) =>
               \A u \in users \ users' : u.id # ret'.args[1].reqUser[1].id
      ]_vars

\* an administrator's request to delete the own account, answered 400
\* while another row is in the table
C21_Witness ==
    /\ ret.op = "serve"
    /\ IsDeleteLookup(ret.args[1])
    /\ OwnId(ret.args[1])
    /\ ret.value[1].status = 400
    /\ Cardinality(users) = 2

\* the row that the token of request r names, if the token is one the
\* service signed and the row exists
Caller(r) ==
    IF r.auth = Null \/ Verify(r.auth[1]) = Null THEN Null
    ELSE FindByPk(users, Verify(r.auth[1])[1])

\* C23 as stated: only users with the admin role can access the /api/admin
\* endpoints: a request from any account whose role is not 'admin', or
\* without a valid token of an existing user, is rejected with 401 or 403
\* and never reaches a user-management handler.
C23_Original ==
    [][ ( /\ ret'.op = "serve"
          /\ ret'.args[1].pc = "isAdmin"
          /\ \/ Caller(ret'.args[1]) = Null
             \/ Caller(ret'.args[1])[1].role # Some("admin") ) =>
            /\ ret'.value # Null
            /\ ret'.value[1].status \in {401, 403}
            /\ \A r \in requests' :
                  r.route \in AdminRoutes => r.pc \in {"isAdmin", "done"}
      ]_vars

\* the account a login request names
Account(r) ==
    IF r.body.email = Some("admin") THEN AdminEmail ELSE r.body.email[1]

\* C27 as stated: a login request succeeds (200 with a token) only when
\* the supplied password matches the password currently stored for that
\* account, so that after a password change a login with the old password
\* is rejected with 401.
C27_Original ==
    [][ ( /\ ret'.op = "serve"
          /\ ret'.args[1].route = "login"
          /\ ret'.value # Null
          /\ ret'.value[1].status = 200 ) =>
            \E u \in users' :
                /\ u.email = Account(ret'.args[1])
                /\ ComparePassword(u, ret'.args[1].body.password[1]) ]_vars

\* a login with the password that was replaced, answered 401
C27_OldPasswordRefused ==
    /\ ret.op = "serve"
    /\ ret.args[1].route = "login"
    /\ ret.value # Null
    /\ ret.value[1].status = 401
    /\ \E u \in users :
          /\ u.email = Account(ret.args[1])
          /\ u.password = Hash(NewPassword)
          /\ ret.args[1].body.password = Some(AnnPassword)

\* a login with admin1234 answered 200 for a row provisioned with that
\* password, after the password was changed
C27_OldAdminPasswordAccepted ==
    /\ ret.op = "serve"
    /\ ret.args[1].route = "login"
    /\ ret.value # Null
    /\ ret.value[1].status = 200
    /\ ret.args[1].body.password = Some(AdminPassword)
    /\ \E u \in users :
          /\ u.email = AdminEmail
          /\ u.role = Some("admin")
          /\ u.password = Hash(NewPassword)

====
